---- MODULE Spec2Model ----
(***************************************************************************)
(* batchAdiabaticOdeSystem: the right-hand side of an adiabatic batch      *)
(* reactor (Training/BatchReactor/02-adiabatic/batchAdiabaticOdeSystem.H). *)
(*                                                                         *)
(* Doubles are modelled by integers lifted with a NaN value; quotients are *)
(* rounded toward minus infinity.  The thermodynamic and the kinetics map  *)
(* are OpenSMOKE++ services outside this repository: they are modelled as  *)
(* deterministic functions of their arguments and of the (T, P) the map    *)
(* currently holds (a calorically perfect mixture and one reaction).       *)
(***************************************************************************)
EXTENDS Integers, Sequences, FiniteSets, TLC

VARIABLES
    TInitial_,     \* double TInitial_  (line 47)
    PInitial_,     \* double PInitial_  (line 48)
    U_,            \* double U_         (line 49)
    isSet,         \* history: which of the three setters have been called
    thermoMap,     \* T and P currently held by thermoMap_
    kineticsMap,   \* T, P and the reaction rates currently held by kineticsMap_
    frame,         \* per caller thread: the activation of derivatives/jacobian
    earlier,       \* history: one earlier completed call under this configuration
    callerLocks,   \* whether the callers wrap each call in a common mutex
    lockHolder     \* the thread holding that mutex, 0 when free

vars == <<TInitial_, PInitial_, U_, isSet, thermoMap, kineticsMap, frame,
          earlier, callerLocks, lockHolder>>

----------------------------------------------------------------------------
(* Bounds of the model *)

\* largest entry of a raw concentration vector handed in by the integrator
MaxConc == 2

\* the caller threads; MainThread is the single thread of the sequential host
Threads == {1, 2}
MainThread == CHOOSE t \in Threads : \A u \in Threads : t <= u

----------------------------------------------------------------------------
(* Doubles *)

NaN == [nan |-> TRUE, v |-> 0]
Num(n) == [nan |-> FALSE, v |-> n]

Add(a, b) == IF a.nan \/ b.nan THEN NaN ELSE Num(a.v + b.v)
Mul(a, b) == IF a.nan \/ b.nan THEN NaN ELSE Num(a.v * b.v)
\* a/b: 0/0 is NaN; no other division by zero arises (see MolecularWeight)
Div(a, b) == IF a.nan \/ b.nan \/ b.v = 0 THEN NaN ELSE Num(a.v \div b.v)

Abs(n) == IF n < 0 THEN 0 - n ELSE n

RECURSIVE Gcd(_, _)
Gcd(a, b) == IF b = 0 THEN a ELSE Gcd(b, a % b)

RECURSIVE SumSeq(_)
SumSeq(s) == IF s = <<>> THEN 0 ELSE Head(s) + SumSeq(Tail(s))

----------------------------------------------------------------------------
(* Program constants *)

\* maxIterations_ = 10 (constructor)
maxIterations_ == 10

\* PhysicalConstants::R_J_kmol, J/kmol/K, truncated
R_J_kmol == 8314

\* 1e-4 of the convergence test, as its reciprocal
TolReciprocal == 10000

\* thermoMap_.NumberOfSpecies()
NumberOfSpecies == 2

nEqns == NumberOfSpecies

Species == 1..NumberOfSpecies

----------------------------------------------------------------------------
(* The consumed services, as deterministic stand-ins *)

\* molecular weight (kg/kmol) and molar heat capacity (J/kmol/K) of species i
SpeciesMW(i) == IF i = 1 THEN 16 ELSE 4
SpeciesCp(i) == IF i = 1 THEN 28314 ELSE 10314

\* a mole fraction n/d in lowest terms; 0/0 is NaN
Frac(n, d) ==
    IF d = 0 THEN [nan |-> TRUE, num |-> 0, den |-> 1]
    ELSE [nan |-> FALSE, num |-> n \div Gcd(n, d), den |-> d \div Gcd(n, d)]

AnyNaN(x) == \E i \in DOMAIN x : x[i].nan

\* sum over the species of x_i * MW_i and of x_i * Cp_i
MixtureMW(x) == SumSeq([i \in DOMAIN x |-> (x[i].num * SpeciesMW(i)) \div x[i].den])
MixtureCp(x) == SumSeq([i \in DOMAIN x |-> (x[i].num * SpeciesCp(i)) \div x[i].den])

\* thermoMap_.MolecularWeight_From_MoleFractions(x)
MolecularWeight_From_MoleFractions(x) ==
    IF AnyNaN(x) THEN NaN ELSE Num(MixtureMW(x))

\* thermoMap_.GetTemperatureFromEnthalpyAndMoleFractions(H*mw, P, x, Tguess):
\* the T at which the molar enthalpy Cp(x)*T of the mixture equals Hmw
GetTemperatureFromEnthalpyAndMoleFractions(Hmw, P, x, Tguess) ==
    IF Hmw.nan \/ P.nan \/ Tguess.nan \/ AnyNaN(x) THEN NaN
    ELSE Num(Hmw.v \div MixtureCp(x))

\* rate constant of the one reaction (species 1 -> species N) at the map's T, P
RateConstant(km) == Add(Div(km.T, Num(100)), Div(km.P, Num(1000000)))

\* kineticsMap_.ReactionRates(c): the reaction rate the map keeps
ReactionRates(km, c) == [km EXCEPT !.rates = Mul(RateConstant(km), Num(c[1]))]

\* kineticsMap_.FormationRates(R): net formation rates from the kept rate
FormationRates(km) ==
    [i \in Species |->
        IF i = 1 THEN Mul(Num(0 - 1), km.rates)
        ELSE IF i = NumberOfSpecies THEN km.rates ELSE Num(0)]

\* kineticsMap_.DerivativesOfFormationRates(c, &dR_over_dC); the service
\* evaluates the reaction rates at c on its way (see Exec)
DerivativesOfFormationRates(km, c) ==
    [i \in Species |-> [j \in Species |->
        IF j # 1 THEN Mul(Num(0), RateConstant(km))
        ELSE IF i = 1 THEN Mul(Num(0 - 1), RateConstant(km))
        ELSE IF i = NumberOfSpecies THEN RateConstant(km)
        ELSE Mul(Num(0), RateConstant(km))]]

----------------------------------------------------------------------------
(* State Reconstructor: lines 85-92 and 125-132 *)

\* mutant of Clip: the magnitude std::fabs(cc[i]) in place of the maximum
ClipMagnitude(cc) == [i \in Species |-> Abs(cc[i])]

\* c(i) = std::max(cc[i], 0.)
Clip(cc) == [i \in Species |-> IF cc[i] > 0 THEN cc[i] ELSE 0]

\* c.sum()
Total(c) == SumSeq(c)

\* x(i) = c[i]/cTot
MoleFractions(c, cTot) == [i \in Species |-> Frac(c[i], cTot)]

----------------------------------------------------------------------------
(* Thermodynamic Closure Solver: lines 95-104 and 135-144 *)

\* double P = PInitial_; double T = TInitial_;
ClosureStart(st) == [T |-> TInitial_, P |-> PInitial_]

\* H = U_ + P/(cTot*mw)
Enthalpy(P, cTot, mw) == Add(U_, Div(P, Mul(Num(cTot), mw)))

\* mutant of IdealGasPressure: the total concentration left out
PressureWithoutTotal(cTot, T) == Mul(Num(R_J_kmol), T)

\* P = cTot*(PhysicalConstants::R_J_kmol*T)
IdealGasPressure(cTot, T) == Mul(Num(cTot), Mul(Num(R_J_kmol), T))

\* std::fabs(P-Pold)/P < 1e-4; a comparison with NaN or with +Inf is false,
\* and the quotient is negative (or -0) when P < 0
Converged(P, Pold) ==
    /\ ~P.nan
    /\ ~Pold.nan
    /\ \/ P.v < 0
       \/ P.v > 0 /\ Abs(P.v - Pold.v) <= (P.v - 1) \div TolReciprocal

\* mutant of LoopContinues: i <= maxIterations_
LoopContinuesInclusive(i) == i <= maxIterations_

\* the loop condition i < maxIterations_
LoopContinues(i) == i < maxIterations_

\* one pass of the loop body from (T, P): the new T and P, and Pold
ClosureStep(T, P, cTot, mw, x) ==
    LET Tn == GetTemperatureFromEnthalpyAndMoleFractions(
                  Mul(Enthalpy(P, cTot, mw), mw), P, x, T)
    IN  [T |-> Tn, P |-> IdealGasPressure(cTot, Tn), Pold |-> P]

\* the for loop from counter i; traj keeps the steps taken
RECURSIVE ClosureLoop(_, _, _, _, _, _, _)
ClosureLoop(i, T, P, traj, cTot, mw, x) ==
    IF ~LoopContinues(i) THEN [T |-> T, P |-> P, traj |-> traj]
    ELSE LET s == ClosureStep(T, P, cTot, mw, x)
         IN  IF Converged(s.P, s.Pold)
             THEN [T |-> s.T, P |-> s.P, traj |-> Append(traj, s)]
             ELSE ClosureLoop(i + 1, s.T, s.P, Append(traj, s), cTot, mw, x)

----------------------------------------------------------------------------
(* derivatives (lines 82-120) and jacobian (lines 122-162), statement by     *)
(* statement.  A machine state st holds the activation st.f and the two maps. *)

\* mutant of DerivativesProgram: the reaction rates are evaluated before the
\* pressure of the kinetics map is set
DerivativesProgramQueryEarly ==
    << "reconstruct", "closure",
       "thermoMap_.SetTemperature", "thermoMap_.SetPressure",
       "kineticsMap_.SetTemperature", "kineticsMap_.ReactionRates",
       "kineticsMap_.SetPressure", "kineticsMap_.FormationRates",
       "dcdt" >>

\* mutant of DerivativesProgram: the kinetics map is not given the temperature
\* and keeps the one of the call before
DerivativesProgramNoKineticsT ==
    << "reconstruct", "closure",
       "thermoMap_.SetTemperature", "thermoMap_.SetPressure",
       "kineticsMap_.SetPressure",
       "kineticsMap_.ReactionRates", "kineticsMap_.FormationRates",
       "dcdt" >>

\* the statements of derivatives, in program order
DerivativesProgram ==
    << "reconstruct", "closure",
       "thermoMap_.SetTemperature", "thermoMap_.SetPressure",
       "kineticsMap_.SetTemperature", "kineticsMap_.SetPressure",
       "kineticsMap_.ReactionRates", "kineticsMap_.FormationRates",
       "dcdt" >>

\* mutant of JacobianProgram: the kinetics map is not given the temperature
JacobianProgramNoKineticsT ==
    << "reconstruct", "closure",
       "thermoMap_.SetTemperature", "thermoMap_.SetPressure",
       "kineticsMap_.SetPressure",
       "kineticsMap_.DerivativesOfFormationRates",
       "dfdt", "dfdc" >>

\* the statements of jacobian, in program order
JacobianProgram ==
    << "reconstruct", "closure",
       "thermoMap_.SetTemperature", "thermoMap_.SetPressure",
       "kineticsMap_.SetTemperature", "kineticsMap_.SetPressure",
       "kineticsMap_.DerivativesOfFormationRates",
       "dfdt", "dfdc" >>

Program(op) == IF op = "derivatives" THEN DerivativesProgram ELSE JacobianProgram

Queries == { "kineticsMap_.ReactionRates", "kineticsMap_.FormationRates",
             "kineticsMap_.DerivativesOfFormationRates" }

Sets == { "thermoMap_.SetTemperature", "thermoMap_.SetPressure",
          "kineticsMap_.SetTemperature", "kineticsMap_.SetPressure" }

\* a thread outside derivatives and jacobian
IdleFrame ==
    [ pc |-> 0, op |-> "none", cc |-> <<>>, cfgSet |-> {},
      c |-> <<>>, cTot |-> 0, x |-> <<>>, mw |-> NaN, T |-> NaN, P |-> NaN,
      traj |-> <<>>, R |-> <<>>, dR_over_dC |-> <<>>,
      dcdt |-> <<>>, dfdt |-> <<>>, dfdc |-> <<>>,
      log |-> <<>>, outcome |-> "none" ]

\* the activation on entry: the arguments, and what the caller's dfdt holds
\* (the time argument t is read by neither function)
EntryFrame(op, cc, dfdt0) ==
    [ IdleFrame EXCEPT
        !.pc = 1, !.op = op, !.cc = cc, !.dfdt = dfdt0, !.cfgSet = isSet ]

\* what a call leaves in the log: the statement, the reals it passed or saw,
\* and the concentrations it passed
Event(ev, val, c) == [ev |-> ev, val |-> val, c |-> c]

Logged(f, ev, val, c) == [f EXCEPT !.log = Append(@, Event(ev, val, c))]

\* mutant of ZeroTimeDerivative: the loop stops one entry short
ZeroAllButLast(dfdt) ==
    [i \in DOMAIN dfdt |-> IF i \in 1..(NumberOfSpecies - 1) THEN Num(0) ELSE dfdt[i]]

\* dfdt[i] = 0. for i < NumberOfSpecies
ZeroTimeDerivative(dfdt) == [i \in DOMAIN dfdt |-> IF i \in Species THEN Num(0) ELSE dfdt[i]]

\* the concentrations handed to the kinetics services: c.data()
KineticsArgument(f) == f.c

\* the effect of one statement on the machine state
Exec(stmt, st) ==
    LET f == st.f
        tm == st.thermoMap
        km == st.kineticsMap
    IN  CASE stmt = "reconstruct" ->
               LET c == Clip(f.cc)
                   cTot == Total(c)
                   x == MoleFractions(c, cTot)
               IN  [st EXCEPT !.f = [f EXCEPT !.c = c, !.cTot = cTot, !.x = x,
                                       !.mw = MolecularWeight_From_MoleFractions(x)]]
          [] stmt = "closure" ->
               LET s0 == ClosureStart(st)
                   r == ClosureLoop(0, s0.T, s0.P, <<>>, f.cTot, f.mw, f.x)
               IN  [st EXCEPT !.f = Logged([f EXCEPT !.T = r.T, !.P = r.P,
                                                      !.traj = r.traj],
                                           stmt, <<r.T, r.P>>, <<>>)]
          [] stmt = "thermoMap_.SetTemperature" ->
               [st EXCEPT !.thermoMap.T = f.T,
                          !.f = Logged(f, stmt, <<f.T>>, <<>>)]
          [] stmt = "thermoMap_.SetPressure" ->
               [st EXCEPT !.thermoMap.P = f.P,
                          !.f = Logged(f, stmt, <<f.P>>, <<>>)]
          [] stmt = "kineticsMap_.SetTemperature" ->
               [st EXCEPT !.kineticsMap.T = f.T,
                          !.f = Logged(f, stmt, <<f.T>>, <<>>)]
          [] stmt = "kineticsMap_.SetPressure" ->
               [st EXCEPT !.kineticsMap.P = f.P,
                          !.f = Logged(f, stmt, <<f.P>>, <<>>)]
          [] stmt = "kineticsMap_.ReactionRates" ->
               [st EXCEPT !.kineticsMap = ReactionRates(km, KineticsArgument(f)),
                          !.f = Logged(f, stmt, <<km.T, km.P>>, KineticsArgument(f))]
          [] stmt = "kineticsMap_.FormationRates" ->
               [st EXCEPT !.f = Logged([f EXCEPT !.R = FormationRates(km)],
                                       stmt, <<km.T, km.P>>, <<>>)]
          [] stmt = "dcdt" ->
               [st EXCEPT !.f = [f EXCEPT !.dcdt = f.R]]
          [] stmt = "kineticsMap_.DerivativesOfFormationRates" ->
               [st EXCEPT !.kineticsMap = ReactionRates(km, KineticsArgument(f)),
                          !.f = Logged([f EXCEPT !.dR_over_dC = DerivativesOfFormationRates(
                                                          km, KineticsArgument(f))],
                                       stmt, <<km.T, km.P>>, KineticsArgument(f))]
          [] stmt = "dfdt" ->
               [st EXCEPT !.f = [f EXCEPT !.dfdt = ZeroTimeDerivative(f.dfdt)]]
          [] stmt = "dfdc" ->
               [st EXCEPT !.f = [f EXCEPT !.dfdc = f.dR_over_dC]]

\* the statement at pc, then pc moves on; past the last one the call returns
\* normally (neither function has another way out)
StepFrame(st) ==
    LET prog == Program(st.f.op)
        nx == Exec(prog[st.f.pc], st)
    IN  [nx EXCEPT !.f.pc = st.f.pc + 1,
                   !.f.outcome = IF st.f.pc = Len(prog) THEN "returned" ELSE "none"]

Running(f) == f.pc >= 1 /\ f.pc <= Len(Program(f.op))
Done(f) == f.op # "none" /\ f.pc = Len(Program(f.op)) + 1

\* a whole call, from the statement at pc to the return
RECURSIVE RunToReturn(_)
RunToReturn(st) == IF Running(st.f) THEN RunToReturn(StepFrame(st)) ELSE st

----------------------------------------------------------------------------
(* Inputs *)

\* arguments of the three setters
TInitialValues == {Num(1000)}
PInitialValues == {Num(8314000)}
UValues == {Num(0), Num(1250000)}

\* what an unset double member may hold
Indeterminate(values) == values \cup {NaN}

\* raw concentration vectors: entries may undershoot zero
Concentrations == [Species -> (0 - 1)..MaxConc]

\* what the caller's dfdt holds before the call
DfdtContents == { [i \in 1..nEqns |-> Num(5)] }

AllSet == {"TInitial_", "PInitial_", "U_"}

----------------------------------------------------------------------------
(* Construction *)

\* the constructor sets the references and maxIterations_ only (lines 54-60)
Init ==
    /\ TInitial_ \in Indeterminate(TInitialValues)
    /\ PInitial_ \in Indeterminate(PInitialValues)
    /\ U_ \in Indeterminate(UValues)
    /\ isSet = {}
    /\ thermoMap = [T |-> Num(0), P |-> Num(0)]
    /\ kineticsMap = [T |-> Num(0), P |-> Num(0), rates |-> Num(0)]
    /\ frame = [t \in Threads |-> IdleFrame]
    /\ earlier = {}
    /\ callerLocks = FALSE
    /\ lockHolder = 0

----------------------------------------------------------------------------
(* Operations *)

NoCallRunning == \A t \in Threads : ~Running(frame[t])

\* the activations of completed calls are gone once the caller moves on
Returned == [t \in Threads |-> IF Running(frame[t]) THEN frame[t] ELSE IdleFrame]

setInitialTemperature(TInitial) ==
    /\ NoCallRunning
    /\ TInitial_' = TInitial
    /\ isSet' = isSet \cup {"TInitial_"}
    /\ earlier' = {}
    /\ frame' = Returned
    /\ UNCHANGED <<PInitial_, U_, thermoMap, kineticsMap, callerLocks, lockHolder>>

setInitialPressure(PInitial) ==
    /\ NoCallRunning
    /\ PInitial_' = PInitial
    /\ isSet' = isSet \cup {"PInitial_"}
    /\ earlier' = {}
    /\ frame' = Returned
    /\ UNCHANGED <<TInitial_, U_, thermoMap, kineticsMap, callerLocks, lockHolder>>

setInternalEnergy(U) ==
    /\ NoCallRunning
    /\ U_' = U
    /\ isSet' = isSet \cup {"U_"}
    /\ earlier' = {}
    /\ frame' = Returned
    /\ UNCHANGED <<TInitial_, PInitial_, thermoMap, kineticsMap, callerLocks, lockHolder>>

\* what is kept of a completed call; other: a call with another input or of
\* jacobian has run since
Summary(f) ==
    [cc |-> f.cc, cTot |-> f.cTot, x |-> f.x, mw |-> f.mw,
     T |-> f.T, P |-> f.P, dcdt |-> f.dcdt, other |-> FALSE]

Later(op, cc) ==
    { [e EXCEPT !.other = @ \/ op # "derivatives" \/ cc # e.cc] : e \in earlier }

\* a whole call of op from the current maps, start to return
CallResult(op, cc, dfdt0) ==
    RunToReturn([f |-> EntryFrame(op, cc, dfdt0),
                 thermoMap |-> thermoMap,
                 kineticsMap |-> kineticsMap])

\* derivatives(t, cc, dcdt) called by thread th
derivatives(th, cc) ==
    \E st \in { CallResult("derivatives", cc, <<>>) } :
        /\ NoCallRunning
        /\ frame' = [Returned EXCEPT ![th] = st.f]
        /\ thermoMap' = st.thermoMap
        /\ kineticsMap' = st.kineticsMap
        /\ \/ earlier' = Later("derivatives", cc)
           \/ isSet = AllSet /\ earlier = {} /\ earlier' = {Summary(st.f)}
        /\ UNCHANGED <<TInitial_, PInitial_, U_, isSet, callerLocks, lockHolder>>

\* jacobian(t, cc, dfdt, dfdc) called by thread th
jacobian(th, cc, dfdt0) ==
    \E st \in { CallResult("jacobian", cc, dfdt0) } :
        /\ NoCallRunning
        /\ frame' = [Returned EXCEPT ![th] = st.f]
        /\ thermoMap' = st.thermoMap
        /\ kineticsMap' = st.kineticsMap
        /\ earlier' = Later("jacobian", cc)
        /\ UNCHANGED <<TInitial_, PInitial_, U_, isSet, callerLocks, lockHolder>>

Next ==
    \/ \E v \in TInitialValues : setInitialTemperature(v)
    \/ \E v \in PInitialValues : setInitialPressure(v)
    \/ \E v \in UValues : setInternalEnergy(v)
    \/ \E cc \in Concentrations : derivatives(MainThread, cc)
    \/ \E cc \in Concentrations, d \in DfdtContents : jacobian(MainThread, cc, d)

Spec == Init /\ [][Next]_vars

----------------------------------------------------------------------------
(* Two integrator threads on one model and one pair of maps.  The calls run   *)
(* statement by statement; the caller may wrap each call in a common mutex.   *)

\* the inputs of the concurrent calls
ConcurrentInputs == { <<1, 0>>, <<2, 1>>, <<0 - 1, 2>> }

\* a configured model, before the first call
InitConcurrent ==
    /\ TInitial_ \in TInitialValues
    /\ PInitial_ \in PInitialValues
    /\ U_ \in UValues
    /\ isSet = AllSet
    /\ thermoMap = [T |-> Num(0), P |-> Num(0)]
    /\ kineticsMap = [T |-> Num(0), P |-> Num(0), rates |-> Num(0)]
    /\ frame = [t \in Threads |-> IdleFrame]
    /\ earlier = {}
    /\ callerLocks \in BOOLEAN
    /\ lockHolder = 0

\* the caller's mutex around a call
Acquire(t) == IF callerLocks THEN lockHolder = 0 /\ lockHolder' = t
              ELSE lockHolder' = lockHolder
Release(t) == lockHolder' = IF lockHolder = t THEN 0 ELSE lockHolder

\* thread t enters derivatives
EnterDerivatives(t, cc) ==
    /\ frame[t].pc = 0
    /\ Acquire(t)
    /\ frame' = [frame EXCEPT ![t] = EntryFrame("derivatives", cc, <<>>)]
    /\ UNCHANGED <<TInitial_, PInitial_, U_, isSet, thermoMap, kineticsMap,
                   earlier, callerLocks>>

\* thread t enters jacobian
EnterJacobian(t, cc, dfdt0) ==
    /\ frame[t].pc = 0
    /\ Acquire(t)
    /\ frame' = [frame EXCEPT ![t] = EntryFrame("jacobian", cc, dfdt0)]
    /\ UNCHANGED <<TInitial_, PInitial_, U_, isSet, thermoMap, kineticsMap,
                   earlier, callerLocks>>

\* thread t executes its next statement
Step(t) ==
    /\ Running(frame[t])
    /\ \E st \in { StepFrame([f |-> frame[t], thermoMap |-> thermoMap,
                               kineticsMap |-> kineticsMap]) } :
          /\ frame' = [frame EXCEPT ![t] = st.f]
          /\ thermoMap' = st.thermoMap
          /\ kineticsMap' = st.kineticsMap
    /\ UNCHANGED <<TInitial_, PInitial_, U_, isSet, earlier, callerLocks, lockHolder>>

\* thread t has returned to its caller
Leave(t) ==
    /\ Done(frame[t])
    /\ Release(t)
    /\ frame' = [frame EXCEPT ![t] = IdleFrame]
    /\ UNCHANGED <<TInitial_, PInitial_, U_, isSet, thermoMap, kineticsMap,
                   earlier, callerLocks>>

NextConcurrent ==
    \E t \in Threads :
        \/ \E cc \in ConcurrentInputs : EnterDerivatives(t, cc)
        \/ \E cc \in ConcurrentInputs, d \in DfdtContents : EnterJacobian(t, cc, d)
        \/ Step(t)
        \/ Leave(t)

SpecConcurrent == InitConcurrent /\ [][NextConcurrent]_vars

----------------------------------------------------------------------------
(* Properties *)

\* the activation of the sequential host's last call
last == frame[MainThread]

QueryEvents(f) == { i \in DOMAIN f.log : f.log[i].ev \in Queries }
SetEvents(f) == { i \in DOMAIN f.log : f.log[i].ev \in Sets }

\* C1: a call whose total concentration after clipping is zero ends in a
\* DegenerateStateError and never completes normally
C1_DegenerateStateError ==
    \A t \in Threads :
        Done(frame[t]) /\ frame[t].cTot = 0
            => frame[t].outcome = "DegenerateStateError"

\* C2: a call that meets a degenerate state or an unset configuration leaves
\* the T and P held by both maps as they were and invokes no kinetics query
C2_AbortsBeforeMaps ==
    [][ \A t \in Threads :
          Done(frame'[t]) /\ (frame'[t].cTot = 0 \/ frame'[t].cfgSet # AllSet)
              => /\ thermoMap'.T = thermoMap.T
                 /\ thermoMap'.P = thermoMap.P
                 /\ kineticsMap'.T = kineticsMap.T
                 /\ kineticsMap'.P = kineticsMap.P
                 /\ QueryEvents(frame'[t]) = {} ]_vars

\* C3: a call made before all three setters were called fails fast with an
\* UninitializedConfigurationError and never runs the closure loop
C3_UninitializedConfigurationError ==
    \A t \in Threads :
        Done(frame[t]) /\ frame[t].cfgSet # AllSet
            => /\ frame[t].outcome = "UninitializedConfigurationError"
               /\ frame[t].traj = <<>>

\* C4: the closure loop takes at least one and at most 10 steps, each step
\* starts from the pressure the step before it ended with, no step before the
\* last meets the tolerance, the loop ends early only on a step that meets it,
\* and the call returns normally with the (T, P) of the last step either way
C4_ClosureTerminates ==
    \A t \in Threads :
        Done(frame[t]) =>
            LET tr == frame[t].traj
                n == Len(tr)
            IN  /\ n >= 1
                /\ n <= 10
                /\ \A k \in 1..(n - 1) :
                      ~Converged(tr[k].P, tr[k].Pold) /\ tr[k + 1].Pold = tr[k].P
                /\ n < 10 => Converged(tr[n].P, tr[n].Pold)
                /\ frame[t].T = tr[n].T
                /\ frame[t].P = tr[n].P
                /\ frame[t].outcome = "returned"

\* C4 witness: a configured call on a non-degenerate state used all 10 steps
\* without meeting the tolerance and returned normally
C4_Witness ==
    /\ Done(last)
    /\ last.cfgSet = AllSet
    /\ last.cTot > 0
    /\ Len(last.traj) = 10
    /\ ~Converged(last.traj[10].P, last.traj[10].Pold)
    /\ ~last.P.nan
    /\ last.outcome = "returned"

\* C6: a derivatives call with the input of an earlier derivatives call under
\* the same configuration gives the output of that earlier call, whatever ran
\* in between
C6_Idempotent ==
    \A e \in earlier :
        Done(last) /\ last.op = "derivatives" /\ last.cc = e.cc
            => last.dcdt = e.dcdt

\* C6 witness: the second of two such calls, after a call with another input,
\* with a nonzero rate
C6_Witness ==
    \E e \in earlier :
        /\ Done(last) /\ last.op = "derivatives" /\ last.cc = e.cc
        /\ e.other
        /\ last.dcdt = e.dcdt
        /\ ~last.dcdt[1].nan /\ last.dcdt[1].v # 0

\* the vectors k*cc for the positive integers k that keep them among the inputs
Scaled(cc, k) == [i \in Species |-> k * cc[i]]
ScaleFactors == 1..(MaxConc + 1)

\* C7 as claimed: for a concentration vector scaled by k > 0 the T and the P of
\* the closure are those of the unscaled vector, and the total scales by k
C7_ScaleInvariantTP ==
    \A e \in earlier : \A k \in ScaleFactors :
        Done(last) /\ last.cc = Scaled(e.cc, k)
            => /\ last.T = e.T
               /\ last.P = e.P
               /\ last.cTot = k * e.cTot

\* C7 amended: for a concentration vector scaled by k > 0 the total scales by
\* k and the mole fractions and the molecular weight are those of the unscaled
\* vector; the pressure is the ideal-gas pressure of the call's own total and
\* final T, so where both calls end at the same T the pressure scales by k
C7_ScaledPressure ==
    \A e \in earlier : \A k \in ScaleFactors :
        Done(last) /\ last.cc = Scaled(e.cc, k)
            => /\ last.cTot = k * e.cTot
               /\ last.x = e.x
               /\ last.mw = e.mw
               /\ last.P = Mul(Num(last.cTot), Mul(Num(8314), last.T))
               /\ last.T = e.T => last.P = Mul(Num(k), e.P)

\* C7 witness: a vector and its double end at the same T and the pressure of
\* the double is twice that of the vector
C7_Witness ==
    \E e \in earlier :
        /\ Done(last) /\ last.cc = Scaled(e.cc, 2)
        /\ e.cTot > 0
        /\ ~e.T.nan /\ e.T.v > 0
        /\ last.T = e.T
        /\ last.P = Mul(Num(2), e.P)
        /\ last.P # e.P

\* C8: a completed jacobian call leaves exactly zero in each of the nEqns
\* entries of dfdt
C8_ZeroTimeDerivative ==
    \A t \in Threads :
        Done(frame[t]) /\ frame[t].op = "jacobian"
            => /\ DOMAIN frame[t].dfdt = 1..NumberOfSpecies
               /\ \A i \in 1..NumberOfSpecies : frame[t].dfdt[i] = Num(0)

\* C8 witness: a configured jacobian call on a non-degenerate state returned
\* with dfdt zeroed and a nonzero dfdc
C8_Witness ==
    /\ Done(last) /\ last.op = "jacobian"
    /\ last.cfgSet = AllSet /\ last.cTot > 0
    /\ \A i \in 1..NumberOfSpecies : last.dfdt[i] = Num(0)
    /\ ~last.dfdc[1][1].nan /\ last.dfdc[1][1].v # 0

\* C9: the concentrations handed to ReactionRates and to
\* DerivativesOfFormationRates are max(cc_i, 0) for each species, and the total
\* used by the closure is their sum
C9_ClippedConcentrations ==
    \A t \in Threads :
        Done(frame[t]) =>
            LET f == frame[t]
                clipped == [i \in 1..NumberOfSpecies |->
                               IF f.cc[i] < 0 THEN 0 ELSE f.cc[i]]
            IN  /\ \E i \in DOMAIN f.log :
                      f.log[i].ev \in { "kineticsMap_.ReactionRates",
                                        "kineticsMap_.DerivativesOfFormationRates" }
                /\ \A i \in DOMAIN f.log :
                      f.log[i].ev \in { "kineticsMap_.ReactionRates",
                                        "kineticsMap_.DerivativesOfFormationRates" }
                          => /\ f.log[i].c = clipped
                             /\ \A j \in 1..NumberOfSpecies : f.log[i].c[j] >= 0
                /\ f.cTot = SumSeq(clipped)

\* C9 witness: a call whose raw vector has a negative and a positive entry
\* handed the kinetics a zero for the negative one and the positive one as is
C9_Witness ==
    \E i \in DOMAIN last.log : \E j, k \in 1..NumberOfSpecies :
        /\ Done(last)
        /\ last.log[i].ev \in Queries /\ last.log[i].c # <<>>
        /\ last.cc[j] < 0 /\ last.log[i].c[j] = 0
        /\ last.cc[k] > 0 /\ last.log[i].c[k] = last.cc[k]

\* C10: in every call the closure loop comes first, then the four sets with
\* the final (T, P) of that closure, and every kinetics query after all four
C10_SetsBeforeQueries ==
    \A t \in Threads :
        Done(frame[t]) =>
            LET f == frame[t]
                L == f.log
            IN  /\ Len(L) >= 1
                /\ L[1].ev = "closure" /\ L[1].val = <<f.T, f.P>>
                /\ \A i \in DOMAIN L : i > 1 => L[i].ev # "closure"
                /\ QueryEvents(f) # {}
                /\ \A q \in QueryEvents(f) : \A n \in Sets :
                      \E i \in SetEvents(f) : i < q /\ L[i].ev = n
                /\ \A i \in SetEvents(f) :
                      L[i].val = IF L[i].ev \in { "thermoMap_.SetTemperature",
                                                  "kineticsMap_.SetTemperature" }
                                 THEN <<f.T>> ELSE <<f.P>>
                /\ thermoMap.T = f.T /\ thermoMap.P = f.P
                /\ kineticsMap.T = f.T /\ kineticsMap.P = f.P

\* C10 witness: a configured derivatives call on a non-degenerate state whose
\* closure took several steps, then the four sets, then both queries
C10_Witness ==
    /\ Done(last) /\ last.op = "derivatives"
    /\ last.cfgSet = AllSet /\ last.cTot > 0
    /\ Len(last.traj) > 1
    /\ Len(last.log) = 7
    /\ last.log[6].ev = "kineticsMap_.ReactionRates"
    /\ last.log[7].ev = "kineticsMap_.FormationRates"
    /\ last.log[7].val = <<last.T, last.P>>

\* C5: when the caller serializes the calls, every kinetics query of a call
\* runs while the kinetics map holds the T and P that call set; without the
\* mutex a query can run on the T and P of the other thread's call (witness)
C5_SerializedQueriesSeeOwnState ==
    callerLocks =>
        \A t \in Threads : \A q \in QueryEvents(frame[t]) :
            frame[t].log[q].val = <<frame[t].T, frame[t].P>>

\* C5 witness: without the mutex, a query of one thread ran on the T and P set
\* by the call of the other thread, which differ from its own
C5_Witness ==
    /\ ~callerLocks
    /\ \E t, u \in Threads : \E q \in QueryEvents(frame[t]) :
          /\ t # u
          /\ SetEvents(frame[u]) # {}
          /\ frame[t].log[q].val = <<frame[u].T, frame[u].P>>
          /\ frame[u].T # frame[t].T
          /\ frame[u].P # frame[t].P

====
